---- MODULE Spec2Model ----
(***************************************************************************)
(* Helix Insights (src/app.py): the Madison threat scorer, the action      *)
(* recommender, the analysis loop of main() and the executive summary.     *)
(*                                                                         *)
(* Python strings are TLA+ strings (TLC evaluates Len, SubSeq and \o on    *)
(* them), a dict is a function from its keys, a list is a sequence.  Time  *)
(* is counted in whole days (the proleptic Gregorian ordinal that          *)
(* datetime.toordinal() returns): is_date_recent only ever looks at        *)
(* (now - date).days, and the parsed date is a midnight.                   *)
(***************************************************************************)
EXTENDS Integers, Sequences, FiniteSets, TLC

VARIABLES
    pc,                \* where main()'s button handler stands
    all_records,       \* main: all_records (the dicts are shared with analyzed_records)
    analyzed_records,  \* main: analyzed_records
    summary,           \* main: summary, or NoSummary before line 596
    clock,             \* the day datetime.now() last returned
    calls,             \* every is_date_recent call of the run, in call order
    raised,            \* the exception that ended the run, "" when none
    fetched,           \* the batch as it was when main assigned all_records
    responses          \* what requests.get did for each provider in this run

vars == <<pc, all_records, analyzed_records, summary, clock, calls, raised, fetched,
          responses>>

---------------------------------------------------------------------------
(* Bounds of the model.                                                    *)

\* How many midnights may pass between the start of a run and its end.
MaxElapsed == 1

\* How many items a provider response holds at most.
MaxFda == 3
MaxClinical == 3

---------------------------------------------------------------------------
(* Python values.                                                          *)

\* None: the value dict.get returns for a missing key when no default is given,
\* and what a JSON null becomes.  No modelled string equals it.
PyNone == "<None>"

\* bool(v) for v a str or None.
Truthy(v) == v # PyNone /\ v # ""

\* a or b
PyOr(a, b) == IF Truthy(a) THEN a ELSE b

\* record.get(key, default)
RecordGet(record, key, default) ==
    IF key \in DOMAIN record THEN record[key] ELSE default

\* term in text, for two str
Contains(term, text) ==
    \E p \in 1..(Len(text) - Len(term) + 1) :
        SubSeq(text, p, p + Len(term) - 1) = term

\* any(term in text for term in terms)
AnyTermIn(terms, text) == \E k \in 1..Len(terms) : Contains(terms[k], text)

UpperCase == "ABCDEFGHIJKLMNOPQRSTUVWXYZ"
LowerCase == "abcdefghijklmnopqrstuvwxyz"

\* c.lower() for each upper-case letter c
LowerOf ==
    [c \in {SubSeq(UpperCase, k, k) : k \in 1..Len(UpperCase)} |->
        LET k == CHOOSE k \in 1..Len(UpperCase) : SubSeq(UpperCase, k, k) = c
        IN  SubSeq(LowerCase, k, k)]

LowerChar(c) == IF c \in DOMAIN LowerOf THEN LowerOf[c] ELSE c

\* s.lower()
RECURSIVE lower(_)
lower(s) ==
    IF s = "" THEN ""
    ELSE IF Len(s) = 1 THEN LowerChar(s)
    ELSE lower(SubSeq(s, 1, Len(s) \div 2)) \o lower(SubSeq(s, Len(s) \div 2 + 1, Len(s)))

\* s[:n + 1], one character too many
PrefixOneMore(s, n) == IF Len(s) <= n + 1 THEN s ELSE SubSeq(s, 1, n + 1)

\* s[:n]
Prefix(s, n) == IF Len(s) <= n THEN s ELSE SubSeq(s, 1, n)

\* s[p] as a one-character string, "" past the end
CharAt(s, p) == IF p \in 1..Len(s) THEN SubSeq(s, p, p) ELSE ""

---------------------------------------------------------------------------
(* datetime.strptime(date_string, '%Y-%m-%d') and date arithmetic.         *)

Digits == "0123456789"

IsDigit(c) == c # "" /\ Contains(c, Digits)

DigitValue(c) == (CHOOSE k \in 1..10 : SubSeq(Digits, k, k) = c) - 1

IsLeap(y) == (y % 4 = 0) /\ ((y % 100 # 0) \/ (y % 400 = 0))

DaysInMonth(y, m) ==
    IF m \in {1, 3, 5, 7, 8, 10, 12} THEN 31
    ELSE IF m \in {4, 6, 9, 11} THEN 30
    ELSE IF IsLeap(y) THEN 29 ELSE 28

RECURSIVE DaysBeforeMonth(_, _)
DaysBeforeMonth(y, m) ==
    IF m = 1 THEN 0 ELSE DaysBeforeMonth(y, m - 1) + DaysInMonth(y, m - 1)

\* date(y, m, d).toordinal(): 1 is 0001-01-01
Ordinal(y, m, d) ==
    LET p == y - 1
    IN  p * 365 + (p \div 4) - (p \div 100) + (p \div 400) + DaysBeforeMonth(y, m) + d

\* How many characters of s, from position p, the directive %m takes: the
\* regex 1[0-2]|0[1-9]|[1-9], alternatives tried in this order; 0 is no match.
MatchMonth(s, p) ==
    LET a == CharAt(s, p)
        b == CharAt(s, p + 1)
    IN  IF a = "1" /\ b \in {"0", "1", "2"} THEN 2
        ELSE IF a = "0" /\ IsDigit(b) /\ b # "0" THEN 2
        ELSE IF IsDigit(a) /\ a # "0" THEN 1
        ELSE 0

\* The same for %d: 3[0-1]|[1-2]\d|0[1-9]|[1-9]| [1-9].
MatchDay(s, p) ==
    LET a == CharAt(s, p)
        b == CharAt(s, p + 1)
    IN  IF a = "3" /\ b \in {"0", "1"} THEN 2
        ELSE IF a \in {"1", "2"} /\ IsDigit(b) THEN 2
        ELSE IF a = "0" /\ IsDigit(b) /\ b # "0" THEN 2
        ELSE IF IsDigit(a) /\ a # "0" THEN 1
        ELSE IF a = " " /\ IsDigit(b) /\ b # "0" THEN 2
        ELSE 0

\* int() of the digits of s, a blank counting as nothing
RECURSIVE IntOf(_)
IntOf(s) ==
    IF s = "" THEN 0
    ELSE LET c == SubSeq(s, Len(s), Len(s))
             rest == SubSeq(s, 1, Len(s) - 1)
         IN  IF c = " " THEN IntOf(rest) ELSE IntOf(rest) * 10 + DigitValue(c)

\* strptime(date_string, '%Y-%m-%d'): [ok |-> TRUE, day |-> the date's ordinal],
\* or ok = FALSE where strptime raises ValueError (no match, unconverted data
\* remaining, year 0, a day the month does not have).
strptime(date_string) ==
    LET s == date_string
        fail == [ok |-> FALSE, day |-> 0]
        yearOk == \A p \in 1..4 : IsDigit(CharAt(s, p))
        ml == MatchMonth(s, 6)
        dl == MatchDay(s, 7 + ml)
    IN  IF ~(yearOk /\ CharAt(s, 5) = "-") THEN fail
        ELSE IF ml = 0 \/ CharAt(s, 6 + ml) # "-" THEN fail
        ELSE IF dl = 0 \/ Len(s) # 6 + ml + dl THEN fail
        ELSE LET y == IntOf(SubSeq(s, 1, 4))
                 m == IntOf(SubSeq(s, 6, 5 + ml))
                 d == IntOf(SubSeq(s, 7 + ml, 6 + ml + dl))
             IN  IF y < 1 \/ d > DaysInMonth(y, m) THEN fail
                 ELSE [ok |-> TRUE, day |-> Ordinal(y, m, d)]

\* Whether is_date_recent gets as far as line 85 and reads the clock.
ReadsClock(date_string) ==
    /\ Truthy(date_string)
    /\ date_string # "N/A"
    /\ strptime(date_string).ok

\* is_date_recent with `0 < diff_days`: a date of today is not recent.
is_date_recent_excluding_today(date_string, days_threshold, now) ==
    IF ~Truthy(date_string) \/ date_string = "N/A" THEN FALSE
    ELSE LET date == strptime(date_string)
         IN  IF ~date.ok THEN FALSE
             ELSE LET diff_days == now - date.day
                  IN  0 < diff_days /\ diff_days <= days_threshold

\* MadisonIntelligenceAgent.is_date_recent, with the value datetime.now()
\* returns at line 85 as the parameter now (a day ordinal).
is_date_recent(date_string, days_threshold, now) ==
    IF ~Truthy(date_string) \/ date_string = "N/A" THEN FALSE
    ELSE LET date == strptime(date_string)
         IN  IF ~date.ok THEN FALSE
             ELSE LET diff_days == now - date.day
                  IN  0 <= diff_days /\ diff_days <= days_threshold

---------------------------------------------------------------------------
(* MadisonIntelligenceAgent.generate_action_items                          *)

\* generate_action_items with the three ifs chained as if/elif/elif: one rule
\* at most fires before the quarterly item.
generate_action_items_elif(threat_level, company, device) ==
    LET company_name == PyOr(company, "Competitor")
        device_name == PyOr(device, "device")
    IN  (IF threat_level = "CRITICAL"
         THEN << [priority |-> "URGENT",
                  action |-> "IMMEDIATE: Executive briefing on " \o company_name
                             \o "'s " \o device_name,
                  timeline |-> "Within 48 hours",
                  owner |-> "Executive Leadership"] >>
         ELSE IF threat_level = "HIGH"
         THEN << [priority |-> "HIGH",
                  action |-> "Competitive deep-dive: " \o company_name
                             \o " strategy and positioning",
                  timeline |-> "Within 2 weeks",
                  owner |-> "Competitive Intelligence"] >>
         ELSE IF threat_level = "MEDIUM"
         THEN << [priority |-> "MEDIUM",
                  action |-> "Monitor " \o company_name \o " market activities",
                  timeline |-> "Next 90 days",
                  owner |-> "Market Intelligence"] >>
         ELSE << >>)
        \o << [priority |-> "LOW",
               action |-> "Include in quarterly competitive review",
               timeline |-> "Quarterly",
               owner |-> "Strategic Planning"] >>

generate_action_items(threat_level, company, device) ==
    LET company_name == PyOr(company, "Competitor")
        device_name == PyOr(device, "device")
        urgent ==
            IF threat_level = "CRITICAL"
            THEN << [priority |-> "URGENT",
                     action |-> "IMMEDIATE: Executive briefing on " \o company_name
                                \o "'s " \o device_name,
                     timeline |-> "Within 48 hours",
                     owner |-> "Executive Leadership"] >>
            ELSE << >>
        high ==
            IF threat_level \in {"HIGH", "CRITICAL"}
            THEN << [priority |-> "HIGH",
                     action |-> "Competitive deep-dive: " \o company_name
                                \o " strategy and positioning",
                     timeline |-> "Within 2 weeks",
                     owner |-> "Competitive Intelligence"] >>
            ELSE << >>
        medium ==
            IF threat_level \in {"MEDIUM", "HIGH", "CRITICAL"}
            THEN << [priority |-> "MEDIUM",
                     action |-> "Monitor " \o company_name \o " market activities",
                     timeline |-> "Next 90 days",
                     owner |-> "Market Intelligence"] >>
            ELSE << >>
        quarterly ==
            << [priority |-> "LOW",
                action |-> "Include in quarterly competitive review",
                timeline |-> "Quarterly",
                owner |-> "Strategic Planning"] >>
    IN  urgent \o high \o medium \o quarterly

---------------------------------------------------------------------------
(* MadisonIntelligenceAgent.analyze_record                                 *)
(* Each factor is the sequence of what it adds: << >> when it does not     *)
(* fire, else one entry [score, confidence, note] per `+=`/append group.   *)

Fired(score, confidence, note) ==
    [score |-> score, confidence |-> confidence, note |-> note]

ophthalmic_terms ==
    << "contact lens", "intraocular", "iol", "lens",
       "ophthalmic", "vision", "eye", "retina", "cornea",
       "cataract", "glaucoma", "myopia", "surgical",
       "vitreous", "retinal", "ocular", "subretinal", "aspirator" >>

advanced_terms == << "surgical", "implant", "laser", "aspirator", "injector", "advanced" >>

advanced_phases == << "phase 3", "phase iii", "phase 2", "phase ii" >>

major_competitors ==
    << "alcon", "bausch", "coopervision", "zeiss", "johnson",
       "novartis", "essilor", "hoya", "menicon", "paragon",
       "optical", "vision", "staar", "amo" >>

\* record.get('decisionDate') or record.get('startDate', '')
EffectiveDate(record) ==
    PyOr(RecordGet(record, "decisionDate", PyNone), RecordGet(record, "startDate", ""))

\* f"{device_name} {trial_title} {product_code}", each lowered, None as ''
SearchText(record) ==
    lower(PyOr(RecordGet(record, "deviceName", ""), "")) \o " "
    \o lower(PyOr(RecordGet(record, "trialTitle", ""), "")) \o " "
    \o lower(PyOr(RecordGet(record, "productCode", ""), ""))

\* Factor 1: now1 and now2 are what datetime.now() returns in the first and in
\* the second is_date_recent call.
RecentActivity(decision_date, now1, now2) ==
    IF is_date_recent(decision_date, 730, now1)
    THEN << Fired(35, 25, "Recent approval/trial within last 2 years") >>
    ELSE IF is_date_recent(decision_date, 1825, now2)
    THEN << Fired(20, 15, "Activity within last 5 years") >>
    ELSE << >>

\* Factor 2
OphthalmologyCategories(search_text) ==
    IF AnyTermIn(ophthalmic_terms, search_text)
    THEN << Fired(30, 20, "High-value ophthalmology product category") >>
    ELSE << >>

\* Factor 3
AdvancedDevices(search_text) ==
    IF AnyTermIn(advanced_terms, search_text)
    THEN << Fired(25, 15, "Advanced surgical or premium device") >>
    ELSE << >>

\* Factor 4
FDAApproval(source) ==
    IF Contains("FDA", source)
    THEN << Fired(20, 15, "FDA 510(k) clearance provides market access") >>
    ELSE << >>

\* Factor 5 with the phase check dedented out of `if 'Clinical' in source`.
ClinicalTrialPhaseUnnested(source, trial_title) ==
    (IF Contains("Clinical", source)
     THEN << Fired(15, 10, "Active clinical development") >>
     ELSE << >>)
    \o (IF AnyTermIn(advanced_phases, trial_title)
        THEN << Fired(30, 20, "Advanced clinical phase") >>
        ELSE << >>)

\* Factor 5, the phase bonus nested in it
ClinicalTrial(source, trial_title) ==
    IF Contains("Clinical", source)
    THEN << Fired(15, 10, "Active clinical development") >>
         \o (IF AnyTermIn(advanced_phases, trial_title)
             THEN << Fired(30, 20, "Advanced clinical phase") >>
             ELSE << >>)
    ELSE << >>

\* Factor 6
MajorCompetitors(company) ==
    IF AnyTermIn(major_competitors, company)
    THEN << Fired(25, 20, "Established ophthalmology competitor") >>
    ELSE << >>

RECURSIVE SumScore(_)
SumScore(fired) ==
    IF fired = << >> THEN 0 ELSE Head(fired).score + SumScore(Tail(fired))

RECURSIVE SumConfidence(_)
SumConfidence(fired) ==
    IF fired = << >> THEN 0 ELSE Head(fired).confidence + SumConfidence(Tail(fired))

Min(a, b) == IF a <= b THEN a ELSE b
Max(a, b) == IF a >= b THEN a ELSE b

\* The level with `>` for `>=` in every comparison.
ThreatLevelStrictlyAbove(threat_score) ==
    IF threat_score > 70 THEN "CRITICAL"
    ELSE IF threat_score > 50 THEN "HIGH"
    ELSE IF threat_score > 30 THEN "MEDIUM"
    ELSE "LOW"

\* Determine Threat Level: the level
ThreatLevel(threat_score) ==
    IF threat_score >= 70 THEN "CRITICAL"
    ELSE IF threat_score >= 50 THEN "HIGH"
    ELSE IF threat_score >= 30 THEN "MEDIUM"
    ELSE "LOW"

\* The confidence without the min(..., 95/90/85) caps.
LevelConfidenceUncapped(threat_score, confidence) ==
    IF threat_score >= 70 THEN confidence + 25
    ELSE IF threat_score >= 50 THEN confidence + 15
    ELSE IF threat_score >= 30 THEN confidence + 10
    ELSE IF threat_score >= 10 THEN Max(confidence, 70)
    ELSE 60

\* Determine Threat Level: the confidence
LevelConfidence(threat_score, confidence) ==
    IF threat_score >= 70 THEN Min(confidence + 25, 95)
    ELSE IF threat_score >= 50 THEN Min(confidence + 15, 90)
    ELSE IF threat_score >= 30 THEN Min(confidence + 10, 85)
    ELSE IF threat_score >= 10 THEN Max(confidence, 70)
    ELSE 60

\* The is_date_recent calls analyze_record makes on record, the index-th of the
\* batch, as the entries logged in calls: the 1825-day call is made only when
\* the 730-day one is false.
RecencyCalls(index, record, now1, now2) ==
    LET decision_date == EffectiveDate(record)
        Call(days_threshold, now) ==
            [index |-> index,
             date_string |-> decision_date,
             days_threshold |-> days_threshold,
             read |-> ReadsClock(decision_date),
             now |-> now,
             result |-> is_date_recent(decision_date, days_threshold, now)]
    IN  IF is_date_recent(decision_date, 730, now1)
        THEN << Call(730, now1) >>
        ELSE << Call(730, now1), Call(1825, now2) >>

\* Whether analyze_record raises on record: `'FDA' in source` is a TypeError
\* when source is None; every other operation is defined on str and None.
AnalyzeRaises(record) == RecordGet(record, "source", "") = PyNone

\* The dict analyze_record returns; now3 is datetime.now() at line 194.
analyze_record(record, now1, now2, now3) ==
    LET source == RecordGet(record, "source", "")
        company == lower(PyOr(RecordGet(record, "company", ""), ""))
        device_name == lower(PyOr(RecordGet(record, "deviceName", ""), ""))
        trial_title == lower(PyOr(RecordGet(record, "trialTitle", ""), ""))
        decision_date == EffectiveDate(record)
        search_text == SearchText(record)
        fired == RecentActivity(decision_date, now1, now2)
                 \o OphthalmologyCategories(search_text)
                 \o AdvancedDevices(search_text)
                 \o FDAApproval(source)
                 \o ClinicalTrial(source, trial_title)
                 \o MajorCompetitors(company)
        threat_score == SumScore(fired)
        threat_level == ThreatLevel(threat_score)
    IN  [threatScore |-> threat_score,
         threatLevel |-> threat_level,
         confidence |-> LevelConfidence(threat_score, SumConfidence(fired)),
         strategicImplications |-> [k \in 1..Len(fired) |-> fired[k].note],
         actionItems |-> generate_action_items(threat_level, company,
                                               PyOr(device_name, trial_title)),
         analysisTimestamp |-> now3,
         agentVersion |-> "Madison_Intelligence_v1.3"]

---------------------------------------------------------------------------
(* generate_executive_summary                                              *)

\* str(n) for n >= 0
RECURSIVE IntToStr(_)
IntToStr(n) ==
    IF n < 10 THEN SubSeq(Digits, n + 1, n + 1)
    ELSE IntToStr(n \div 10) \o SubSeq(Digits, (n % 10) + 1, (n % 10) + 1)

\* total // count: the quotient rounded down instead of to the nearest.
RoundDivFloor(total, count) == total \div count

\* round(total / count) for total >= 0 and count > 0: Python rounds a half to
\* the even neighbour.
RoundDiv(total, count) ==
    LET q == total \div count
        r == total % count
    IN  IF 2 * r < count THEN q
        ELSE IF 2 * r > count THEN q + 1
        ELSE IF q % 2 = 0 THEN q ELSE q + 1

\* round(total_confidence / len(analyzed_records)), which raises on a zero length
PyRoundDiv(total, count) ==
    IF count = 0 THEN [exc |-> "ZeroDivisionError", value |-> 0]
    ELSE [exc |-> "", value |-> RoundDiv(total, count)]

\* Line 479 without its `if analyzed_records else 0`.
AverageConfidenceUnguarded(total_confidence, count) ==
    PyRoundDiv(total_confidence, count)

\* line 479
AverageConfidence(total_confidence, count) ==
    IF count # 0 THEN PyRoundDiv(total_confidence, count)
    ELSE [exc |-> "", value |-> 0]

\* The product without the 'Unknown' default: record.get('trialTitle').
ProductOrTrialNoDefault(record) ==
    PyOr(RecordGet(record, "deviceName", PyNone), RecordGet(record, "trialTitle", PyNone))

\* record.get('deviceName') or record.get('trialTitle', 'Unknown')
ProductOrTrial(record) ==
    PyOr(RecordGet(record, "deviceName", PyNone), RecordGet(record, "trialTitle", "Unknown"))

\* The entry with intel['actionItems'][-1], the last item instead of the first
CriticalEntryLastAction(record) ==
    LET intel == record["madisonIntelligence"]
    IN  [company |-> RecordGet(record, "company", "Unknown"),
         product |-> Prefix(ProductOrTrial(record), 100),
         threatScore |-> intel.threatScore,
         confidence |-> intel.confidence,
         urgentAction |-> IF intel.actionItems # << >>
                          THEN intel.actionItems[Len(intel.actionItems)].action
                          ELSE "Review immediately"]

\* The entry appended to critical_threats
CriticalEntry(record) ==
    LET intel == record["madisonIntelligence"]
    IN  [company |-> RecordGet(record, "company", "Unknown"),
         product |-> Prefix(ProductOrTrial(record), 100),
         threatScore |-> intel.threatScore,
         confidence |-> intel.confidence,
         urgentAction |-> IF intel.actionItems # << >>
                          THEN intel.actionItems[1].action
                          ELSE "Review immediately"]

\* The entry appended to high_threats
HighEntry(record) ==
    LET intel == record["madisonIntelligence"]
    IN  [company |-> RecordGet(record, "company", "Unknown"),
         product |-> Prefix(ProductOrTrial(record), 100),
         threatScore |-> intel.threatScore,
         confidence |-> intel.confidence]

\* The exception the loop body raises on record, "" when none: KeyError when
\* the record carries no madisonIntelligence, TypeError when a CRITICAL or HIGH
\* record's product is None (None[:100]).
EntryException(record) ==
    IF "madisonIntelligence" \notin DOMAIN record THEN "KeyError"
    ELSE IF /\ record["madisonIntelligence"].threatLevel \in {"CRITICAL", "HIGH"}
            /\ ProductOrTrial(record) = PyNone
         THEN "TypeError"
    ELSE ""

\* A descending sort that is not stable: entries of equal score end up in the
\* reverse of the order they had.
RECURSIVE SortByScoreDescTiesReversed(_)
SortByScoreDescTiesReversed(threats) ==
    IF threats = << >> THEN << >>
    ELSE LET x == Head(threats)
             rest == SortByScoreDescTiesReversed(Tail(threats))
             before == Cardinality({k \in 1..Len(rest) : rest[k].threatScore >= x.threatScore})
         IN  SubSeq(rest, 1, before) \o << x >> \o SubSeq(rest, before + 1, Len(rest))

\* list.sort(key=lambda x: x['threatScore'], reverse=True): descending and
\* stable, entries of equal score keep the order they had.
RECURSIVE SortByScoreDesc(_)
SortByScoreDesc(threats) ==
    IF threats = << >> THEN << >>
    ELSE LET x == Head(threats)
             rest == SortByScoreDesc(Tail(threats))
             before == Cardinality({k \in 1..Len(rest) : rest[k].threatScore > x.threatScore})
         IN  SubSeq(rest, 1, before) \o << x >> \o SubSeq(rest, before + 1, Len(rest))

\* threats[:n]
Top(threats, n) == IF Len(threats) <= n THEN threats ELSE SubSeq(threats, 1, n)

RECURSIVE TotalConfidence(_)
TotalConfidence(records) ==
    IF records = << >> THEN 0
    ELSE Head(records)["madisonIntelligence"].confidence + TotalConfidence(Tail(records))

\* The count kept only in the CRITICAL and HIGH branches of the loop
CountLevelListedOnly(records, level) ==
    IF level \in {"CRITICAL", "HIGH"}
    THEN Cardinality({k \in 1..Len(records) :
                        records[k]["madisonIntelligence"].threatLevel = level})
    ELSE 0

\* threat_counts[intel['threatLevel']] += 1 over the records (line 457)
CountLevel(records, level) ==
    Cardinality({k \in 1..Len(records) : records[k]["madisonIntelligence"].threatLevel = level})

RECURSIVE CollectLevel(_, _)
CollectLevel(records, level) ==
    IF records = << >> THEN << >>
    ELSE (IF Head(records)["madisonIntelligence"].threatLevel = level
          THEN << Head(records) >> ELSE << >>)
         \o CollectLevel(Tail(records), level)

\* generate_executive_summary: [exc |-> the exception it raises, "" when it
\* returns, value |-> the dict it returns].
generate_executive_summary(records) ==
    LET bad == {k \in 1..Len(records) : EntryException(records[k]) # ""}
    IN  IF bad # {}
        THEN [exc |-> EntryException(records[CHOOSE k \in bad : \A j \in bad : k <= j]),
              value |-> << >>]
        ELSE
        LET threat_counts == [level \in {"CRITICAL", "HIGH", "MEDIUM", "LOW"} |->
                                 CountLevel(records, level)]
            criticals == CollectLevel(records, "CRITICAL")
            highs == CollectLevel(records, "HIGH")
            critical_threats ==
                SortByScoreDesc([k \in 1..Len(criticals) |-> CriticalEntry(criticals[k])])
            high_threats ==
                SortByScoreDesc([k \in 1..Len(highs) |-> HighEntry(highs[k])])
            avg_confidence == AverageConfidence(TotalConfidence(records), Len(records))
        IN  IF avg_confidence.exc # ""
            THEN [exc |-> avg_confidence.exc, value |-> << >>]
            ELSE [exc |-> "",
                  value |->
                    [threatOverview |-> threat_counts,
                     averageConfidence |-> avg_confidence.value,
                     totalRecords |-> Len(records),
                     criticalThreats |-> Top(critical_threats, 5),
                     highThreats |-> Top(high_threats, 5),
                     executiveSummary |->
                        "Helix Insights analyzed " \o IntToStr(Len(records))
                        \o " competitive records from FDA device approvals and clinical trial databases. Analysis identified "
                        \o IntToStr(threat_counts["CRITICAL"])
                        \o " CRITICAL threats requiring immediate executive action, "
                        \o IntToStr(threat_counts["HIGH"])
                        \o " HIGH priority items for strategic competitive review, "
                        \o IntToStr(threat_counts["MEDIUM"])
                        \o " MEDIUM priority items for ongoing monitoring, and "
                        \o IntToStr(threat_counts["LOW"])
                        \o " LOW priority items for quarterly review. Average threat assessment confidence level: "
                        \o IntToStr(avg_confidence.value) \o "%."]]

---------------------------------------------------------------------------
(* main(): the analysis loop (lines 587-593) and the summary (line 596).   *)

\* The day the modelled run starts on, 2026-11-05, and the last day it can reach.
Day0 == Ordinal(2026, 11, 5)
LastDay == Day0 + MaxElapsed

\* summary before line 596 assigns it
Unbound == [unbound |-> TRUE]

\* The providers were not called: the demo dataset, or a batch given directly.
NotRequested == [fda |-> [kind |-> "none"], clinical |-> [kind |-> "none"]]

\* A step that builds a new record holding the intelligence alone.
AttachReplacing(record, intelligence) ==
    [k \in {"madisonIntelligence"} |-> intelligence]

\* record['madisonIntelligence'] = intelligence
Attach(record, intelligence) ==
    [k \in DOMAIN record \cup {"madisonIntelligence"} |->
        IF k = "madisonIntelligence" THEN intelligence ELSE record[k]]

\* One iteration of `for record in all_records`.  The values datetime.now()
\* returns are inputs: each is no earlier than the one before.  A call that
\* returns before line 85 reads nothing, and the value is then left where it was.
AnalyzeRecord ==
    /\ pc = "analyze"
    /\ Len(analyzed_records) < Len(all_records)
    /\ LET i == Len(analyzed_records) + 1
           record == all_records[i]
           decision_date == EffectiveDate(record)
       IN  \E now1 \in clock..LastDay : \E now2 \in now1..LastDay : \E now3 \in now2..LastDay :
             /\ ~ReadsClock(decision_date) => now1 = clock
             /\ (~ReadsClock(decision_date) \/ is_date_recent(decision_date, 730, now1))
                    => now2 = now1
             /\ calls' = calls \o RecencyCalls(i, record, now1, now2)
             /\ IF AnalyzeRaises(record)
                THEN /\ raised' = "TypeError"
                     /\ pc' = "crashed"
                     /\ clock' = now2
                     /\ now3 = now2
                     /\ UNCHANGED <<all_records, analyzed_records>>
                ELSE LET intelligence == analyze_record(record, now1, now2, now3)
                         scored == Attach(record, intelligence)
                     IN  /\ all_records' = [all_records EXCEPT ![i] = scored]
                         /\ analyzed_records' = Append(analyzed_records, scored)
                         /\ clock' = now3
                         /\ UNCHANGED <<raised, pc>>
    /\ UNCHANGED <<summary, fetched, responses>>

\* summary = generate_executive_summary(analyzed_records), after the loop
Summarize ==
    /\ pc = "analyze"
    /\ Len(analyzed_records) = Len(all_records)
    /\ LET result == generate_executive_summary(analyzed_records)
       IN  IF result.exc # ""
           THEN /\ raised' = result.exc
                /\ pc' = "crashed"
                /\ UNCHANGED summary
           ELSE /\ summary' = result.value
                /\ pc' = "done"
                /\ UNCHANGED raised
    /\ UNCHANGED <<all_records, analyzed_records, clock, calls, fetched, responses>>

NextCore == AnalyzeRecord \/ Summarize

---------------------------------------------------------------------------
(* analyze_record on one record: every field independently absent, None,   *)
(* empty, "N/A" or a string, and the dates around the 730 and 1825 day     *)
(* boundaries of Day0.                                                     *)

Absent == "<absent>"

Fields == {"source", "company", "deviceName", "trialTitle", "productCode",
           "decisionDate", "startDate"}

\* The dict whose keys are the fields choice does not map to Absent
MakeRecord(choice) ==
    [k \in {f \in Fields : choice[f] # Absent} |-> choice[k]]

\* Every combination of the six factors.
TextChoices ==
    [source : {Absent, "", "FDA 510(k)", "ClinicalTrials.gov", "FDA Clinical",
               "fda clinical"},
     company : {Absent, "N/A", "Alcon Labs"},
     deviceName : {Absent, "", "Surgical Laser", "Contact Lens", "Implant"},
     trialTitle : {Absent, "N/A", "Phase 3 Eye", "Phase II"},
     productCode : {Absent, "", "IOL"},
     decisionDate : {Absent, "2026-11-05", "2021-11-06"},
     startDate : {Absent}]

\* Every field absent, None (a JSON null), empty, "N/A" or a string.
LooseChoices ==
    [source : {Absent, PyNone, "", "N/A", "FDA 510(k)"},
     company : {Absent, PyNone, "", "N/A", "Alcon Labs"},
     deviceName : {Absent, "", "N/A", "Implant"},
     trialTitle : {Absent, PyNone, "", "N/A"},
     productCode : {Absent, "", "N/A", "IOL"},
     decisionDate : {Absent, "2026-11-05"},
     startDate : {Absent}]

\* The dates: absent, None, empty, "N/A", today, tomorrow, a one-digit day,
\* the two sides of the 730 and of the 1825 day boundary, and what strptime
\* rejects.
DateChoices ==
    [source : {"", "FDA 510(k)"},
     company : {Absent},
     deviceName : {Absent},
     trialTitle : {Absent},
     productCode : {Absent},
     decisionDate : {Absent, PyNone, "", "N/A", "2026-11-05", "2026-11-06", "2026-11-5",
                     "2024-11-05", "2024-11-04", "2021-11-06", "2021-11-05",
                     "11/05/2026", "2026-02-30", "2026-11"},
     startDate : {Absent, "", "N/A", "2024-11-05"}]

\* Names of 150, 101 and 100 characters, in CRITICAL and in HIGH records.
DeviceName150 ==
    "Extended Depth of Focus Intraocular Lens with Preloaded Delivery System, Model 01234567890123456789012345678901234567890123456789012345678901234567890"
TrialTitle150 ==
    "Phase 3 Randomized Study of a Sustained Release Implant for Glaucoma, Cohort abcdefghijabcdefghijabcdefghijabcdefghijabcdefghijabcdefghijabcdefghijabc"

LongChoices ==
    [source : {"FDA 510(k)"},
     company : {Absent, "Alcon Labs"},
     deviceName : {Absent, "", DeviceName150, SubSeq(DeviceName150, 1, 101),
                   SubSeq(DeviceName150, 1, 100)},
     trialTitle : {Absent, "", TrialTitle150},
     productCode : {Absent},
     decisionDate : {"2026-11-05"},
     startDate : {Absent}]

RecordInputs ==
    {MakeRecord(c) : c \in TextChoices \cup LooseChoices \cup DateChoices \cup LongChoices}

InitRecord ==
    /\ pc = "analyze"
    /\ \E record \in RecordInputs : all_records = << record >>
    /\ fetched = all_records
    /\ analyzed_records = << >>
    /\ summary = Unbound
    /\ clock = Day0
    /\ calls = << >>
    /\ raised = ""
    /\ responses = NotRequested

SpecRecord == InitRecord /\ [][NextCore]_vars

---------------------------------------------------------------------------
(* The data providers and main()'s fetch step (lines 568-585).             *)
(* A response is what requests.get does: it raises (kind "Timeout" or      *)
(* "ConnectionError"), or it returns (kind "http") a status code and a     *)
(* body; a body is JSON or not, and a JSON object is a function from its   *)
(* keys, a JSON null is PyNone.                                            *)

EmptyDict == << >>

\* What a JSON value that is no object stands as, where an object is expected.
NotADict == [notdict |-> TRUE]
IsDict(value) == "notdict" \notin DOMAIN value

\* One item of the FDA payload as a record (lines 357-369)
FdaRecord(item) ==
    LET raw == RecordGet(item, "decision_date", "")
        decision_date ==
            IF Truthy(raw) /\ Len(raw) = 8
            THEN SubSeq(raw, 1, 4) \o "-" \o SubSeq(raw, 5, 6) \o "-" \o SubSeq(raw, 7, 8)
            ELSE raw
    IN  [source |-> "FDA 510(k)",
         company |-> RecordGet(item, "applicant", "Unknown"),
         deviceName |-> RecordGet(item, "device_name", "Unknown Device"),
         productCode |-> RecordGet(item, "product_code", ""),
         decisionDate |-> PyOr(decision_date, "N/A"),
         status |-> "Approved",
         regulatoryClass |-> RecordGet(item, "device_class", "Unknown")]

\* The try block of fetch_fda_data (lines 324-379): [exc |-> the exception
\* raised inside it, "" when none, value |-> the list it returns].  The
\* request raises, json() raises on a body that is no JSON, .get raises on a
\* value that is no dict; a 404 and every other status return [].
FdaTry(response) ==
    IF response.kind # "http" THEN [exc |-> response.kind, value |-> << >>]
    ELSE IF response.status_code = 200
    THEN IF ~response.json THEN [exc |-> "JSONDecodeError", value |-> << >>]
         ELSE IF ~IsDict(response.data) THEN [exc |-> "AttributeError", value |-> << >>]
         ELSE LET results == RecordGet(response.data, "results", << >>)
              IN  IF \E k \in 1..Len(results) : ~IsDict(results[k])
                  THEN [exc |-> "AttributeError", value |-> << >>]
                  ELSE [exc |-> "", value |-> [k \in 1..Len(results) |-> FdaRecord(results[k])]]
    ELSE [exc |-> "", value |-> << >>]

\* fetch_fda_data with `except requests.exceptions.Timeout` as its only handler
fetch_fda_data_timeout_only(response) ==
    LET try == FdaTry(response)
    IN  IF try.exc = "Timeout" THEN [exc |-> "", value |-> << >>] ELSE try

\* fetch_fda_data: [exc |-> the exception it lets out, value |-> the list it
\* returns].  The handlers of lines 381-386 (Timeout, then Exception) take
\* every exception of the try block and return [].
fetch_fda_data(response) ==
    LET try == FdaTry(response)
    IN  IF try.exc = "" THEN try
        ELSE IF try.exc = "Timeout" THEN [exc |-> "", value |-> << >>]
        ELSE [exc |-> "", value |-> << >>]

\* One study of the ClinicalTrials payload as a record (lines 417-438)
ClinicalRecord(study) ==
    LET protocol == RecordGet(study, "protocolSection", EmptyDict)
        identification == RecordGet(protocol, "identificationModule", EmptyDict)
        status_module == RecordGet(protocol, "statusModule", EmptyDict)
        sponsor_module == RecordGet(protocol, "sponsorCollaboratorsModule", EmptyDict)
        design_module == RecordGet(protocol, "designModule", EmptyDict)
        start_date == RecordGet(RecordGet(status_module, "startDateStruct", EmptyDict),
                                "date", "N/A")
        phases == RecordGet(design_module, "phases", << >>)
    IN  [source |-> "ClinicalTrials.gov",
         company |-> RecordGet(RecordGet(sponsor_module, "leadSponsor", EmptyDict),
                               "name", "Unknown"),
         trialTitle |-> RecordGet(identification, "briefTitle", "Unknown Trial"),
         nctId |-> RecordGet(identification, "nctId", ""),
         status |-> RecordGet(status_module, "overallStatus", "Unknown"),
         startDate |-> start_date,
         phase |-> IF phases # << >> THEN phases[1] ELSE "Unknown"]

\* The try block of fetch_clinical_trials (lines 392-441)
ClinicalTry(response) ==
    IF response.kind # "http" THEN [exc |-> response.kind, value |-> << >>]
    ELSE IF response.status_code = 200
    THEN IF ~response.json THEN [exc |-> "JSONDecodeError", value |-> << >>]
         ELSE IF ~IsDict(response.data) THEN [exc |-> "AttributeError", value |-> << >>]
         ELSE LET studies == Top(RecordGet(response.data, "studies", << >>), 50)
              IN  IF \E k \in 1..Len(studies) : ~IsDict(studies[k])
                  THEN [exc |-> "AttributeError", value |-> << >>]
                  ELSE [exc |-> "",
                        value |-> [k \in 1..Len(studies) |-> ClinicalRecord(studies[k])]]
    ELSE [exc |-> "", value |-> << >>]

\* fetch_clinical_trials: `except Exception` (lines 444-446) returns [].
fetch_clinical_trials(response) ==
    LET try == ClinicalTry(response)
    IN  IF try.exc = "" THEN try ELSE [exc |-> "", value |-> << >>]

\* generate_demo_data
generate_demo_data ==
    << [source |-> "FDA 510(k)", company |-> "Alcon Laboratories",
        deviceName |-> "AcrySof IQ Vivity Extended Vision Intraocular Lens",
        productCode |-> "MQW", decisionDate |-> "2024-10-15",
        status |-> "Approved", regulatoryClass |-> "Class III"],
       [source |-> "FDA 510(k)", company |-> "Johnson & Johnson Vision Care",
        deviceName |-> "ACUVUE OASYS Contact Lens with Transitions",
        productCode |-> "MQJ", decisionDate |-> "2024-09-22",
        status |-> "Approved", regulatoryClass |-> "Class II"],
       [source |-> "FDA 510(k)", company |-> "Bausch + Lomb",
        deviceName |-> "enVista Toric Intraocular Lens",
        productCode |-> "MOB", decisionDate |-> "2024-08-30",
        status |-> "Approved", regulatoryClass |-> "Class III"],
       [source |-> "FDA 510(k)", company |-> "ZEISS Medical Technology",
        deviceName |-> "ARTEVO 800 Ophthalmic Surgical Microscope",
        productCode |-> "HQN", decisionDate |-> "2024-11-05",
        status |-> "Approved", regulatoryClass |-> "Class II"],
       [source |-> "FDA 510(k)", company |-> "CooperVision Inc",
        deviceName |-> "MyDay Toric Contact Lens",
        productCode |-> "MQC", decisionDate |-> "2024-07-18",
        status |-> "Approved", regulatoryClass |-> "Class II"],
       [source |-> "ClinicalTrials.gov", company |-> "Novartis Pharmaceuticals",
        trialTitle |-> "Phase III Study of Aflibercept for Diabetic Retinopathy",
        nctId |-> "NCT05234567", status |-> "RECRUITING",
        startDate |-> "2024-06-01", phase |-> "PHASE3"],
       [source |-> "ClinicalTrials.gov", company |-> "Alcon Research",
        trialTitle |-> "Safety and Efficacy of New Presbyopia Correcting IOL",
        nctId |-> "NCT05345678", status |-> "ACTIVE_NOT_RECRUITING",
        startDate |-> "2024-03-15", phase |-> "PHASE2"],
       [source |-> "ClinicalTrials.gov", company |-> "Regeneron Pharmaceuticals",
        trialTitle |-> "Long-term Study of Anti-VEGF Therapy for Wet AMD",
        nctId |-> "NCT05456789", status |-> "RECRUITING",
        startDate |-> "2024-08-20", phase |-> "PHASE3"] >>

\* Sequences over S of length at most n
SeqUpTo(S, n) == UNION {[1..m -> S] : m \in 0..n}

\* The items openFDA may send
FdaItems ==
    { [applicant |-> "Alcon Laboratories", device_name |-> "Intraocular Lens",
       product_code |-> "HQL", decision_date |-> "20260801", device_class |-> "3"],
      [applicant |-> "Carl Zeiss Meditec", device_name |-> "Retinal Camera",
       product_code |-> "HKI", decision_date |-> "20260715", device_class |-> "2"],
      [device_name |-> "Eye Drop Dispenser", decision_date |-> PyNone] }

Study(sponsor, title, date) ==
    [protocolSection |->
        [identificationModule |-> [briefTitle |-> title, nctId |-> "NCT00000001"],
         statusModule |-> [startDateStruct |-> [date |-> date],
                           overallStatus |-> "RECRUITING"],
         sponsorCollaboratorsModule |-> [leadSponsor |-> [name |-> sponsor]],
         designModule |-> [phases |-> << "PHASE3" >>]]]

\* The studies ClinicalTrials.gov may send: one complete, its start date
\* given to the month; one with most of its modules missing.
ClinicalStudies ==
    { Study("Hoya Vision Care", "Phase 3 Trial of Drug X", "2026-03"),
      [protocolSection |->
          [identificationModule |-> [briefTitle |-> "Phase 2 Extension"],
           statusModule |-> [startDateStruct |-> [date |-> "2023-06-01"]]]] }

Failures ==
    { [kind |-> "Timeout"], [kind |-> "ConnectionError"],
      [kind |-> "http", status_code |-> 404],
      [kind |-> "http", status_code |-> 500],
      [kind |-> "http", status_code |-> 200, json |-> FALSE],
      [kind |-> "http", status_code |-> 200, json |-> TRUE, data |-> NotADict],
      [kind |-> "http", status_code |-> 200, json |-> TRUE, data |-> EmptyDict] }

FdaResponses ==
    Failures \cup
    { [kind |-> "http", status_code |-> 200, json |-> TRUE, data |-> [results |-> items]] :
        items \in SeqUpTo(FdaItems, MaxFda) } \cup
    { [kind |-> "http", status_code |-> 200, json |-> TRUE,
       data |-> [results |-> << item, NotADict >>]] : item \in FdaItems }

ClinicalResponses ==
    Failures \cup
    { [kind |-> "http", status_code |-> 200, json |-> TRUE, data |-> [studies |-> studies]] :
        studies \in SeqUpTo(ClinicalStudies, MaxClinical) } \cup
    { [kind |-> "http", status_code |-> 200, json |-> TRUE,
       data |-> [studies |-> << study, NotADict >>]] : study \in ClinicalStudies }

\* main, lines 568-585: the demo dataset, or what the two providers return;
\* with no record at all main warns and returns.  An exception a provider
\* lets out ends the run there.
FetchDemo ==
    /\ all_records' = generate_demo_data
    /\ fetched' = generate_demo_data
    /\ pc' = "analyze"
    /\ UNCHANGED <<raised, responses>>

FetchProviders ==
    \E fda_response \in FdaResponses : \E clinical_response \in ClinicalResponses :
        LET fda_data == fetch_fda_data(fda_response)
            clinical_data == fetch_clinical_trials(clinical_response)
        IN  /\ responses' = [fda |-> fda_response, clinical |-> clinical_response]
            /\ IF fda_data.exc # "" \/ clinical_data.exc # ""
               THEN /\ raised' = IF fda_data.exc # "" THEN fda_data.exc
                                 ELSE clinical_data.exc
                    /\ pc' = "crashed"
                    /\ UNCHANGED <<all_records, fetched>>
               ELSE /\ all_records' = fda_data.value \o clinical_data.value
                    /\ fetched' = fda_data.value \o clinical_data.value
                    /\ pc' = IF fda_data.value \o clinical_data.value = << >>
                             THEN "returned" ELSE "analyze"
                    /\ UNCHANGED raised

Fetch ==
    /\ pc = "fetch"
    /\ \E use_demo_data \in BOOLEAN :
          IF use_demo_data THEN FetchDemo ELSE FetchProviders
    /\ UNCHANGED <<analyzed_records, summary, clock, calls>>

Init ==
    /\ pc = "fetch"
    /\ all_records = << >>
    /\ fetched = << >>
    /\ analyzed_records = << >>
    /\ summary = Unbound
    /\ clock = LastDay
    /\ calls = << >>
    /\ raised = ""
    /\ responses = NotRequested

Next == Fetch \/ AnalyzeRecord \/ Summarize

Spec == Init /\ [][Next]_vars

---------------------------------------------------------------------------
(* The analysis loop and the summary on any batch of records, the empty    *)
(* one included (main itself returns before the loop when it has none).    *)

Batches ==
    { fetch_fda_data(f).value \o fetch_clinical_trials(c).value :
        f \in FdaResponses, c \in ClinicalResponses }

InitBatch ==
    /\ pc = "analyze"
    /\ all_records \in Batches
    /\ fetched = all_records
    /\ analyzed_records = << >>
    /\ summary = Unbound
    /\ clock = LastDay
    /\ calls = << >>
    /\ raised = ""
    /\ responses = NotRequested

SpecBatch == InitBatch /\ [][NextCore]_vars

---------------------------------------------------------------------------
(* What the specification says of the scorer, stated apart from the        *)
(* definitions above: the factor table of section 4.2 and the level table. *)

\* The factors in evaluation order: the note, and what the factor adds.
FactorTable ==
    << [note |-> "Recent approval/trial within last 2 years", score |-> 35, confidence |-> 25],
       [note |-> "Activity within last 5 years", score |-> 20, confidence |-> 15],
       [note |-> "High-value ophthalmology product category", score |-> 30, confidence |-> 20],
       [note |-> "Advanced surgical or premium device", score |-> 25, confidence |-> 15],
       [note |-> "FDA 510(k) clearance provides market access", score |-> 20, confidence |-> 15],
       [note |-> "Active clinical development", score |-> 15, confidence |-> 10],
       [note |-> "Advanced clinical phase", score |-> 30, confidence |-> 20],
       [note |-> "Established ophthalmology competitor", score |-> 25, confidence |-> 20] >>

RowOf(note) == FactorTable[CHOOSE r \in 1..Len(FactorTable) : FactorTable[r].note = note]

RECURSIVE NotesScore(_)
NotesScore(notes) ==
    IF notes = << >> THEN 0 ELSE RowOf(Head(notes)).score + NotesScore(Tail(notes))

RECURSIVE NotesConfidence(_)
NotesConfidence(notes) ==
    IF notes = << >> THEN 0 ELSE RowOf(Head(notes)).confidence + NotesConfidence(Tail(notes))

\* The level table, each row with both of its ends.
TableLevel(s) ==
    CASE s >= 70 -> "CRITICAL"
      [] s >= 50 /\ s < 70 -> "HIGH"
      [] s >= 30 /\ s < 50 -> "MEDIUM"
      [] s < 30 -> "LOW"

TableConfidence(s, c) ==
    CASE s >= 70 -> Min(c + 25, 95)
      [] s >= 50 /\ s < 70 -> Min(c + 15, 90)
      [] s >= 30 /\ s < 50 -> Min(c + 10, 85)
      [] s >= 10 /\ s < 30 -> Max(c, 70)
      [] s < 10 -> 60

LevelRank(level) ==
    CASE level = "LOW" -> 0 [] level = "MEDIUM" -> 1 [] level = "HIGH" -> 2
      [] level = "CRITICAL" -> 3

\* The largest score and the largest accumulated confidence the table allows.
TopScore == NotesScore([r \in 1..Len(FactorTable) |-> FactorTable[r].note])
TopConfidence == NotesConfidence([r \in 1..Len(FactorTable) |-> FactorTable[r].note])

Scored == 1..Len(analyzed_records)
IntelOf(k) == analyzed_records[k]["madisonIntelligence"]
CallsOf(k) == {calls[j] : j \in {j \in 1..Len(calls) : calls[j].index = k}}

\* A field of the k-th fetched record as the scorer reads it: lowered, a
\* missing or None value as ''.
FieldText(k, field) == lower(PyOr(RecordGet(fetched[k], field, ""), ""))

---------------------------------------------------------------------------
\* C1: the level and the final confidence of every scored record are those the
\* table gives for its score s and its accumulated confidence c (the sum of
\* the confidence of the factors noted), first matching row from the top; a
\* record with no note has score 0, LOW and confidence 60; at 9/10, 29/30,
\* 49/50 and 69/70 the level and the confidence fall on the stated sides, and
\* the level never decreases as the score grows.
C1_Boundaries ==
    /\ \A c \in 0..TopConfidence :
         /\ ThreatLevel(9) = "LOW" /\ LevelConfidence(9, c) = 60
         /\ ThreatLevel(10) = "LOW" /\ LevelConfidence(10, c) = Max(c, 70)
         /\ ThreatLevel(29) = "LOW" /\ LevelConfidence(29, c) = Max(c, 70)
         /\ ThreatLevel(30) = "MEDIUM" /\ LevelConfidence(30, c) = Min(c + 10, 85)
         /\ ThreatLevel(49) = "MEDIUM" /\ LevelConfidence(49, c) = Min(c + 10, 85)
         /\ ThreatLevel(50) = "HIGH" /\ LevelConfidence(50, c) = Min(c + 15, 90)
         /\ ThreatLevel(69) = "HIGH" /\ LevelConfidence(69, c) = Min(c + 15, 90)
         /\ ThreatLevel(70) = "CRITICAL" /\ LevelConfidence(70, c) = Min(c + 25, 95)
    /\ \A s \in 0..(TopScore - 1) :
         LevelRank(ThreatLevel(s)) <= LevelRank(ThreatLevel(s + 1))

C1_LevelFromTable ==
    /\ C1_Boundaries
    /\ \A k \in Scored :
         LET intel == IntelOf(k)
             s == intel.threatScore
             c == NotesConfidence(intel.strategicImplications)
         IN  /\ intel.threatLevel = TableLevel(s)
             /\ intel.confidence = TableConfidence(s, c)
             /\ intel.strategicImplications = << >> =>
                    /\ s = 0
                    /\ intel.threatLevel = "LOW"
                    /\ intel.confidence = 60

\* A record scored exactly 70: CRITICAL, confidence min(c + 25, 95).
C1_Witness ==
    \E k \in Scored :
        /\ IntelOf(k).threatScore = 70
        /\ IntelOf(k).threatLevel = "CRITICAL"
        /\ IntelOf(k).confidence = NotesConfidence(IntelOf(k).strategicImplications) + 25

---------------------------------------------------------------------------
\* C2: threatScore is the sum of the contributions of exactly the factors that
\* fire on the record, and strategicImplications is their notes in evaluation
\* order: +35 when the 730-day check holds, else +20 when the 1825-day check
\* holds, never both; ophthalmic term +30; advanced term +25; "FDA" in source
\* +20; "Clinical" in source +15; competitor +25; the phase bonus +30 only
\* when source contains "Clinical".
C2_Fires(k) ==
    LET source == RecordGet(fetched[k], "source", "")
        texts == {FieldText(k, "deviceName"), FieldText(k, "trialTitle"),
                  FieldText(k, "productCode")}
        recent2 == \E call \in CallsOf(k) : call.days_threshold = 730 /\ call.result
        recent5 == \E call \in CallsOf(k) : call.days_threshold = 1825 /\ call.result
        clinical == Contains("Clinical", source)
    IN  << recent2,
           ~recent2 /\ recent5,
           \E text \in texts : AnyTermIn(ophthalmic_terms, text),
           \E text \in texts : AnyTermIn(advanced_terms, text),
           Contains("FDA", source),
           clinical,
           clinical /\ AnyTermIn(advanced_phases, FieldText(k, "trialTitle")),
           AnyTermIn(major_competitors, FieldText(k, "company")) >>

RECURSIVE NotesOfFired(_, _)
NotesOfFired(fires, r) ==
    IF r > Len(FactorTable) THEN << >>
    ELSE (IF fires[r] THEN << FactorTable[r].note >> ELSE << >>)
         \o NotesOfFired(fires, r + 1)

C2_ScoreIsSumOfFired ==
    \A k \in Scored :
        LET intel == IntelOf(k)
            expected == NotesOfFired(C2_Fires(k), 1)
            notes == {intel.strategicImplications[n] : n \in 1..Len(intel.strategicImplications)}
        IN  /\ intel.strategicImplications = expected
            /\ intel.threatScore = NotesScore(expected)
            /\ ~({FactorTable[1].note, FactorTable[2].note} \subseteq notes)
            /\ "Advanced clinical phase" \in notes =>
                   Contains("Clinical", RecordGet(fetched[k], "source", ""))

\* A record scored whose title names a phase and whose source is not clinical,
\* and on which the ophthalmic and the advanced factor both fired.
C2_Witness ==
    \E k \in Scored :
        LET notes == {IntelOf(k).strategicImplications[n] :
                         n \in 1..Len(IntelOf(k).strategicImplications)}
        IN  /\ ~Contains("Clinical", RecordGet(fetched[k], "source", ""))
            /\ AnyTermIn(advanced_phases, FieldText(k, "trialTitle"))
            /\ "High-value ophthalmology product category" \in notes
            /\ "Advanced surgical or premium device" \in notes
            /\ "Advanced clinical phase" \notin notes

---------------------------------------------------------------------------
\* C3: the confidence of every ScoringResult is an integer from 0 to 100 and
\* its threatScore an integer >= 0.
C3_ConfidenceInRange ==
    \A k \in Scored :
        /\ IntelOf(k).confidence \in 0..100
        /\ IntelOf(k).threatScore \in Nat

\* A record on which every factor fired: the accumulated confidence is past 100.
C3_Witness ==
    \E k \in Scored :
        /\ IntelOf(k).threatScore = TopScore - 20
        /\ NotesConfidence(IntelOf(k).strategicImplications) > 100
        /\ IntelOf(k).confidence = 95

---------------------------------------------------------------------------
\* C4: the action items of a CRITICAL result are exactly URGENT, HIGH, MEDIUM,
\* LOW in this order, of a HIGH one HIGH, MEDIUM, LOW, of a MEDIUM one MEDIUM,
\* LOW, of a LOW one LOW; the last item is always the quarterly review.
PrioritiesOf(items) == [n \in 1..Len(items) |-> items[n].priority]

LevelPriorities(level) ==
    CASE level = "CRITICAL" -> << "URGENT", "HIGH", "MEDIUM", "LOW" >>
      [] level = "HIGH" -> << "HIGH", "MEDIUM", "LOW" >>
      [] level = "MEDIUM" -> << "MEDIUM", "LOW" >>
      [] level = "LOW" -> << "LOW" >>

QuarterlyLast(items) ==
    /\ items # << >>
    /\ items[Len(items)].priority = "LOW"
    /\ items[Len(items)].action = "Include in quarterly competitive review"
    /\ items[Len(items)].timeline = "Quarterly"

C4_AnyNames ==
    \A level \in {"CRITICAL", "HIGH", "MEDIUM", "LOW"} :
    \A company \in {"", "alcon labs"} : \A device \in {"", "implant"} :
        LET items == generate_action_items(level, company, device)
        IN  PrioritiesOf(items) = LevelPriorities(level) /\ QuarterlyLast(items)

C4_ActionsByLevel ==
    /\ C4_AnyNames
    /\ \A k \in Scored :
         LET items == IntelOf(k).actionItems
         IN  /\ PrioritiesOf(items) = LevelPriorities(IntelOf(k).threatLevel)
             /\ Len(items) = 1 + LevelRank(IntelOf(k).threatLevel)
             /\ QuarterlyLast(items)

\* A CRITICAL record with its four items.
C4_Witness ==
    \E k \in Scored :
        /\ IntelOf(k).threatLevel = "CRITICAL"
        /\ Len(IntelOf(k).actionItems) = 4
        /\ IntelOf(k).actionItems[1].priority = "URGENT"

---------------------------------------------------------------------------
\* C5: all recency comparisons of one run use one current-time value: no two
\* is_date_recent calls of the run that compare against the clock (the two
\* checks of one record, or the checks of two records) compare against
\* different days.
C5_OneInstantPerRun ==
    \A i \in 1..Len(calls) : \A j \in 1..Len(calls) :
        (calls[i].read /\ calls[j].read) => calls[i].now = calls[j].now

---------------------------------------------------------------------------
\* C6: on a record whose fields are each a string, empty, "N/A" or absent
\* (none is None), analyze_record returns a ScoringResult and
\* generate_executive_summary returns a summary: the run never stops on an
\* exception, and once every record is scored the summary counts them all; a
\* factor whose fields are all missing does not fire.
LooseSchema(record) == \A f \in DOMAIN record : record[f] # PyNone

C6_MissingFieldsDoNotFire(k) ==
    LET present == DOMAIN fetched[k]
        notes == {IntelOf(k).strategicImplications[n] :
                     n \in 1..Len(IntelOf(k).strategicImplications)}
    IN  /\ "company" \notin present =>
               "Established ophthalmology competitor" \notin notes
        /\ "source" \notin present =>
               notes \cap {"FDA 510(k) clearance provides market access",
                           "Active clinical development",
                           "Advanced clinical phase"} = {}
        /\ present \cap {"deviceName", "trialTitle", "productCode"} = {} =>
               notes \cap {"High-value ophthalmology product category",
                           "Advanced surgical or premium device"} = {}
        /\ present \cap {"decisionDate", "startDate"} = {} =>
               notes \cap {"Recent approval/trial within last 2 years",
                           "Activity within last 5 years"} = {}

C6_NoErrorOnLooseRecords ==
    (\A k \in 1..Len(fetched) : LooseSchema(fetched[k])) =>
        /\ raised = ""
        /\ pc \in {"analyze", "done"}
        /\ pc = "analyze" => Len(analyzed_records) <= Len(all_records)
        /\ pc = "done" =>
              /\ Len(analyzed_records) = Len(fetched)
              /\ summary # Unbound
              /\ summary.totalRecords = Len(fetched)
        /\ \A k \in Scored : C6_MissingFieldsDoNotFire(k)

\* The record with no field at all, scored and summarised.
C6_Witness ==
    /\ pc = "done"
    /\ Len(fetched) = 1
    /\ DOMAIN fetched[1] = {}
    /\ IntelOf(1).threatScore = 0
    /\ summary.threatOverview["LOW"] = 1

---------------------------------------------------------------------------
\* C7: is_date_recent is true exactly when the date string is non-empty, not
\* "N/A", a date and now - date is from 0 to the threshold, in whole days.
\* As claimed, a date is the ten characters YYYY-MM-DD; as amended, it is what
\* strptime takes for '%Y-%m-%d': a four-digit year, then a month and a day
\* of one or two digits, a one-digit day possibly after a blank.
IsDigits(s) == \A p \in 1..Len(s) : IsDigit(CharAt(s, p))

CalendarDay(y, m, d) ==
    IF y >= 1 /\ m \in 1..12 /\ d >= 1 /\ d <= DaysInMonth(y, m)
    THEN << Ordinal(y, m, d) >>
    ELSE << >>

\* << the day ordinal >> of a string of the form YYYY-MM-DD, else << >>
StrictDay(s) ==
    IF /\ Len(s) = 10
       /\ IsDigits(SubSeq(s, 1, 4)) /\ CharAt(s, 5) = "-"
       /\ IsDigits(SubSeq(s, 6, 7)) /\ CharAt(s, 8) = "-"
       /\ IsDigits(SubSeq(s, 9, 10))
    THEN CalendarDay(IntOf(SubSeq(s, 1, 4)), IntOf(SubSeq(s, 6, 7)), IntOf(SubSeq(s, 9, 10)))
    ELSE << >>

\* The same with the month in ml and the day in dl characters
FormDay(s, ml, dl) ==
    LET month == SubSeq(s, 6, 5 + ml)
        day == SubSeq(s, 7 + ml, 6 + ml + dl)
    IN  IF /\ IsDigits(SubSeq(s, 1, 4)) /\ CharAt(s, 5) = "-"
           /\ IsDigits(month) /\ CharAt(s, 6 + ml) = "-"
           /\ \/ IsDigits(day)
              \/ dl = 2 /\ CharAt(day, 1) = " " /\ IsDigit(CharAt(day, 2))
        THEN CalendarDay(IntOf(SubSeq(s, 1, 4)), IntOf(month), IntOf(day))
        ELSE << >>

LenientDay(s) ==
    LET forms == {f \in {1, 2} \X {1, 2} : Len(s) = 6 + f[1] + f[2]}
    IN  IF \E f \in forms : FormDay(s, f[1], f[2]) # << >>
        THEN FormDay(s, (CHOOSE f \in forms : FormDay(s, f[1], f[2]) # << >>)[1],
                        (CHOOSE f \in forms : FormDay(s, f[1], f[2]) # << >>)[2])
        ELSE << >>

InWindow(day, now, days_threshold) ==
    /\ day # << >>
    /\ now - day[1] >= 0
    /\ now - day[1] <= days_threshold

\* The claim as stated: a date is YYYY-MM-DD.
C7_RecentIffStrictDate ==
    \A j \in 1..Len(calls) :
        LET s == calls[j].date_string
        IN  calls[j].result <=>
                /\ s # PyNone /\ s # "" /\ s # "N/A"
                /\ InWindow(StrictDay(s), calls[j].now, calls[j].days_threshold)

\* The claim as amended: a date is what strptime takes for '%Y-%m-%d'.
C7_RecentIffStrptimeDate ==
    \A j \in 1..Len(calls) :
        LET s == calls[j].date_string
        IN  calls[j].result <=>
                /\ s # PyNone /\ s # "" /\ s # "N/A"
                /\ InWindow(LenientDay(s), calls[j].now, calls[j].days_threshold)

\* A call on a date written with a one-digit day, found recent.
C7_Witness ==
    \E j \in 1..Len(calls) :
        /\ Len(calls[j].date_string) = 9
        /\ StrictDay(calls[j].date_string) = << >>
        /\ calls[j].result

---------------------------------------------------------------------------
\* C8: criticalThreats holds exactly the min(5, number of CRITICAL records)
\* CRITICAL records of highest threatScore, in descending score order with
\* equal scores in input order, and no record of another level; highThreats
\* likewise for HIGH.  A record's place is one more than the number of
\* records of its level that score higher, or score the same and come earlier.
LevelIndexes(level) == {k \in Scored : IntelOf(k).threatLevel = level}

PlaceOf(k, level) ==
    1 + Cardinality({j \in LevelIndexes(level) :
                        \/ IntelOf(j).threatScore > IntelOf(k).threatScore
                        \/ IntelOf(j).threatScore = IntelOf(k).threatScore /\ j < k})

IsEntryOf(entry, k) ==
    /\ entry.company = (IF "company" \in DOMAIN fetched[k]
                        THEN fetched[k].company ELSE "Unknown")
    /\ entry.threatScore = IntelOf(k).threatScore
    /\ entry.confidence = IntelOf(k).confidence

TopFiveOf(threats, level) ==
    /\ Len(threats) = Min(5, Cardinality(LevelIndexes(level)))
    /\ \A k \in LevelIndexes(level) :
           PlaceOf(k, level) <= 5 => IsEntryOf(threats[PlaceOf(k, level)], k)
    /\ \A n \in 1..Len(threats) :
           /\ \E k \in LevelIndexes(level) : PlaceOf(k, level) = n
           /\ n > 1 => threats[n - 1].threatScore >= threats[n].threatScore

C8_TopFiveByScore ==
    pc = "done" =>
        /\ TopFiveOf(summary.criticalThreats, "CRITICAL")
        /\ TopFiveOf(summary.highThreats, "HIGH")

\* More than five CRITICAL records, two of them of equal score from different
\* companies, summarised.
C8_Witness ==
    /\ pc = "done"
    /\ Cardinality(LevelIndexes("CRITICAL")) > 5
    /\ Len(summary.criticalThreats) = 5
    /\ \E i \in LevelIndexes("CRITICAL") : \E j \in LevelIndexes("CRITICAL") :
           /\ i < j
           /\ IntelOf(i).threatScore = IntelOf(j).threatScore
           /\ PlaceOf(j, "CRITICAL") <= 5
           /\ "company" \in DOMAIN fetched[i] /\ "company" \in DOMAIN fetched[j]
           /\ fetched[i].company # fetched[j].company

---------------------------------------------------------------------------
\* C9: for the empty batch the analysis yields an empty scored sequence and
\* the summary is threatOverview all zero, averageConfidence 0, totalRecords
\* 0 and empty criticalThreats and highThreats; nothing is raised.
C9_EmptyBatchZeroed ==
    fetched = << >> =>
        /\ raised = ""
        /\ pc \in {"analyze", "done"}
        /\ analyzed_records = << >>
        /\ pc = "done" =>
              /\ DOMAIN summary.threatOverview = {"CRITICAL", "HIGH", "MEDIUM", "LOW"}
              /\ \A level \in DOMAIN summary.threatOverview :
                     summary.threatOverview[level] = 0
              /\ summary.averageConfidence = 0
              /\ summary.totalRecords = 0
              /\ summary.criticalThreats = << >>
              /\ summary.highThreats = << >>

C9_Witness ==
    /\ fetched = << >>
    /\ pc = "done"
    /\ summary # Unbound
    /\ summary.totalRecords = 0

---------------------------------------------------------------------------
\* C10: the analysis loop scores the records in input order: the i-th scored
\* record is the i-th input record with the result attached under the one
\* added key madisonIntelligence, every original field unchanged; the records
\* not yet scored are untouched; at the end the output is as long as the input.
C10_OriginalWithResult(k) ==
    /\ DOMAIN analyzed_records[k] = DOMAIN fetched[k] \cup {"madisonIntelligence"}
    /\ "madisonIntelligence" \notin DOMAIN fetched[k]
    /\ \A f \in DOMAIN fetched[k] : analyzed_records[k][f] = fetched[k][f]
    /\ IntelOf(k) = analyze_record(fetched[k], clock, clock, clock)
    /\ all_records[k] = analyzed_records[k]

C10_OrderAndFieldsPreserved ==
    pc \in {"analyze", "done"} =>
        /\ Len(all_records) = Len(fetched)
        /\ Len(analyzed_records) <= Len(fetched)
        /\ \A k \in Scored : C10_OriginalWithResult(k)
        /\ \A k \in 1..Len(fetched) : k \notin Scored => all_records[k] = fetched[k]
        /\ pc = "done" => Len(analyzed_records) = Len(fetched)

\* A batch of at least two records, the first two different, all scored.
C10_Witness ==
    /\ pc = "done"
    /\ Len(analyzed_records) >= 2
    /\ fetched[1] # fetched[2]
    /\ IntelOf(1).threatLevel # IntelOf(2).threatLevel

---------------------------------------------------------------------------
\* C11: in every criticalThreats and highThreats entry, product is the first
\* 100 characters of the record's name and never longer than 100.  As
\* claimed, the name is deviceName if the record has one, else trialTitle if
\* it has one, else "Unknown"; as amended, an empty deviceName counts as none
\* while an empty trialTitle is still taken.
FirstChars(s, n) == IF Len(s) > n THEN SubSeq(s, 1, n) ELSE s

ClaimedName(record) ==
    IF "deviceName" \in DOMAIN record THEN record.deviceName
    ELSE IF "trialTitle" \in DOMAIN record THEN record.trialTitle
    ELSE "Unknown"

AmendedName(record) ==
    IF "deviceName" \in DOMAIN record /\ record.deviceName \notin {"", PyNone}
    THEN record.deviceName
    ELSE IF "trialTitle" \in DOMAIN record THEN record.trialTitle
    ELSE "Unknown"

ThreatsOf(level) ==
    IF level = "CRITICAL" THEN summary.criticalThreats ELSE summary.highThreats

\* The claim as stated, on the records of the loose schema.
C11_ProductByPresence ==
    pc = "done" =>
        \A level \in {"CRITICAL", "HIGH"} : \A k \in LevelIndexes(level) :
            (PlaceOf(k, level) <= 5 /\ LooseSchema(fetched[k])) =>
                ThreatsOf(level)[PlaceOf(k, level)].product
                    = FirstChars(ClaimedName(fetched[k]), 100)

\* The claim as amended.
C11_ProductByFallback ==
    pc = "done" =>
        \A level \in {"CRITICAL", "HIGH"} : \A k \in LevelIndexes(level) :
            PlaceOf(k, level) <= 5 =>
                LET product == ThreatsOf(level)[PlaceOf(k, level)].product
                IN  /\ product = FirstChars(AmendedName(fetched[k]), 100)
                    /\ Len(product) <= 100

\* A CRITICAL record whose deviceName has more than 100 characters, summarised.
C11_Witness ==
    /\ pc = "done"
    /\ Len(fetched) = 1
    /\ "deviceName" \in DOMAIN fetched[1]
    /\ Len(fetched[1].deviceName) > 100
    /\ Len(summary.criticalThreats) = 1
    /\ Len(summary.criticalThreats[1].product) = 100

---------------------------------------------------------------------------
\* C12: for a non-empty scored batch averageConfidence is the integer
\* round(sum of the confidences / number of records): it is within 1/2 of the
\* exact mean (the even neighbour when exactly between two integers) and lies
\* between the smallest and the largest confidence of the batch; for the
\* empty batch it is 0.
RECURSIVE ConfidenceSum(_)
ConfidenceSum(indexes) ==
    IF indexes = {} THEN 0
    ELSE LET k == CHOOSE k \in indexes : TRUE
         IN  IntelOf(k).confidence + ConfidenceSum(indexes \ {k})

\* Twice the distance of average from total / count, in units of 1 / count
TwiceOff(average, total, count) ==
    IF average * count >= total THEN 2 * (average * count - total)
    ELSE 2 * (total - average * count)

C12_AverageIsRoundedMean ==
    pc = "done" =>
        LET count == Len(analyzed_records)
            total == ConfidenceSum(Scored)
            average == summary.averageConfidence
        IN  IF count = 0 THEN average = 0
            ELSE /\ average \in Int
                 /\ TwiceOff(average, total, count) <= count
                 /\ TwiceOff(average, total, count) = count => average % 2 = 0
                 /\ \E k \in Scored : IntelOf(k).confidence <= average
                 /\ \E k \in Scored : IntelOf(k).confidence >= average

\* A batch of unequal confidences whose mean is not an integer, summarised.
C12_Witness ==
    /\ pc = "done"
    /\ Len(analyzed_records) >= 3
    /\ \E i \in Scored : \E j \in Scored : IntelOf(i).confidence # IntelOf(j).confidence
    /\ summary.averageConfidence * Len(analyzed_records) > ConfidenceSum(Scored)

---------------------------------------------------------------------------
\* C13: whatever a provider's request does (timeout, connection error, 404,
\* another non-200 status, a 200 whose body is no JSON, no object, or holds
\* an item that is no object), fetch_fda_data and fetch_clinical_trials
\* return a list, empty on failure, and let no exception out; the batch that
\* reaches the analysis is the FDA records followed by the clinical records,
\* so one provider's failure leaves the other's records in it.
Delivered(response, key) ==
    IF /\ response.kind = "http"
       /\ response.status_code = 200
       /\ response.json
       /\ "notdict" \notin DOMAIN response.data
       /\ key \in DOMAIN response.data
       /\ \A k \in 1..Len(response.data[key]) : "notdict" \notin DOMAIN response.data[key][k]
    THEN response.data[key]
    ELSE << >>

C13_ProvidersDegrade ==
    responses # NotRequested =>
        LET items == Delivered(responses.fda, "results")
            studies == Delivered(responses.clinical, "studies")
        IN  /\ raised = ""
            /\ pc # "crashed"
            /\ Len(fetched) = Len(items) + Len(studies)
            /\ \A k \in 1..Len(items) :
                   /\ fetched[k].source = "FDA 510(k)"
                   /\ fetched[k].deviceName = items[k].device_name
            /\ \A k \in 1..Len(studies) :
                   /\ fetched[Len(items) + k].source = "ClinicalTrials.gov"
                   /\ fetched[Len(items) + k].trialTitle
                          = studies[k].protocolSection.identificationModule.briefTitle
            /\ pc = "returned" <=> fetched = << >>
            /\ pc = "done" => Len(analyzed_records) = Len(items) + Len(studies)

\* The FDA request fails with a connection error, the clinical request
\* delivers two studies, and both are analysed.
C13_Witness ==
    /\ pc = "done"
    /\ responses.fda.kind = "ConnectionError"
    /\ Len(Delivered(responses.clinical, "studies")) = 2
    /\ Len(analyzed_records) = 2
    /\ analyzed_records[1].source = "ClinicalTrials.gov"

---------------------------------------------------------------------------
\* C14: in the summary of a scored batch the four counts of threatOverview
\* sum to totalRecords, each count is the number of records of that level,
\* criticalThreats has min(5, count of CRITICAL) entries and highThreats has
\* min(5, count of HIGH).
C14_CountsAgree ==
    pc = "done" =>
        /\ summary.threatOverview["CRITICAL"] + summary.threatOverview["HIGH"]
              + summary.threatOverview["MEDIUM"] + summary.threatOverview["LOW"]
              = summary.totalRecords
        /\ summary.totalRecords = Len(fetched)
        /\ \A level \in {"CRITICAL", "HIGH", "MEDIUM", "LOW"} :
               summary.threatOverview[level] = Cardinality(LevelIndexes(level))
        /\ Len(summary.criticalThreats)
              = (IF summary.threatOverview["CRITICAL"] < 5
                 THEN summary.threatOverview["CRITICAL"] ELSE 5)
        /\ Len(summary.highThreats)
              = (IF summary.threatOverview["HIGH"] < 5
                 THEN summary.threatOverview["HIGH"] ELSE 5)

\* A batch with more than five CRITICAL records and a MEDIUM one, summarised.
C14_Witness ==
    /\ pc = "done"
    /\ summary.threatOverview["CRITICAL"] > 5
    /\ summary.threatOverview["MEDIUM"] >= 1
    /\ Len(summary.criticalThreats) = 5
    /\ summary.totalRecords > 5

---------------------------------------------------------------------------
\* C15: every result of analyze_record has a non-empty actionItems whose
\* length is fixed by its threatLevel (CRITICAL 4, HIGH 3, MEDIUM 2, LOW 1);
\* so the urgentAction of every criticalThreats entry is the text of the
\* URGENT executive-briefing item of its record, and never the fallback
\* "Review immediately".
ItemsForLevel(level) ==
    IF level = "CRITICAL" THEN 4
    ELSE IF level = "HIGH" THEN 3
    ELSE IF level = "MEDIUM" THEN 2
    ELSE 1

\* The briefing text for the k-th record: its lower-cased company, or
\* "Competitor", and its lower-cased deviceName, else trialTitle, else "device".
BriefingText(k) ==
    LET company == FieldText(k, "company")
        device == IF FieldText(k, "deviceName") # "" THEN FieldText(k, "deviceName")
                  ELSE FieldText(k, "trialTitle")
    IN  "IMMEDIATE: Executive briefing on "
        \o (IF company # "" THEN company ELSE "Competitor")
        \o "'s " \o (IF device # "" THEN device ELSE "device")

C15_UrgentActionIsBriefing ==
    /\ \A k \in Scored :
           /\ IntelOf(k).actionItems # << >>
           /\ Len(IntelOf(k).actionItems) = ItemsForLevel(IntelOf(k).threatLevel)
    /\ pc = "done" =>
           /\ \A n \in 1..Len(summary.criticalThreats) :
                  summary.criticalThreats[n].urgentAction # "Review immediately"
           /\ \A k \in LevelIndexes("CRITICAL") :
                  PlaceOf(k, "CRITICAL") <= 5 =>
                      LET entry == summary.criticalThreats[PlaceOf(k, "CRITICAL")]
                      IN  /\ IntelOf(k).actionItems[1].priority = "URGENT"
                          /\ entry.urgentAction = IntelOf(k).actionItems[1].action
                          /\ entry.urgentAction = BriefingText(k)

\* A CRITICAL record without a company, summarised with its briefing text.
C15_Witness ==
    /\ pc = "done"
    /\ Len(summary.criticalThreats) = 1
    /\ "company" \notin DOMAIN fetched[1]
    /\ Len(IntelOf(1).actionItems) = 4
    /\ summary.criticalThreats[1].urgentAction = BriefingText(1)

====
